---- MODULE Spec2Model ----
(***************************************************************************)
(* Model of the ci-metrics-bigquery dispatcher: one decoded MetricsData    *)
(* document is fanned out, category by category, to BigQuery tables        *)
(* (BigQueryLoader.LoadMetricsData) or to newline-delimited JSON files     *)
(* (ExportMetricsFromGCS).  The warehouse and the file system are the      *)
(* environment: every call on them may succeed or fail.                    *)
(***************************************************************************)
EXTENDS Naturals, Sequences, FiniteSets, TLC

\* Records per non-empty category of the input document.
MaxLen == 2
\* Invocations of one sink against the same dataset / directory.
MaxRuns == 2

\* Characters put before and after the file-name stems of the object names.
MaxAffix == 1

\* Fields of a union record that hold a value other than the zero value.
MaxSet == 2

\* net/http StatusConflict, the code isAlreadyExistsError compares with.
StatusConflict == 409

VARIABLES
    doc,          \* the decoded MetricsData: field -> sequence of records
    tables,       \* the BigQuery dataset: table name -> [exists, rows]
    files,        \* the export directory: file name -> [exists, lines]
    dirExists,    \* whether the export directory exists
    pc,           \* "idle", "load" (in LoadMetricsData) or "export"
    pos,          \* index of the next category step of the running sink
    bqCalls,      \* calls issued on the warehouse by the last Load
    fsCalls,      \* calls issued on the file system by the last Export
    loadResult,   \* what the last LoadFromGCS returned
    exportResult, \* what the last ExportMetricsFromGCS returned
    loadRuns,     \* number of Load invocations so far
    exportRuns,   \* number of Export invocations so far
    tablesBefore, \* the dataset as it was when the last Load started
    filesBefore,  \* the directory as it was when the last Export started
    loadSteps,    \* what the last Load did before dispatch (clients, read, decode)
    exportSteps,  \* what the last Export did before dispatch (read, decode, mkdir)
    loadsOk,      \* number of Load invocations that returned nil
    event,        \* object name of the storage event the cloud function received
    triggerResult,\* what the cloud function LoadMetricsFromGCS returned
    jsonRec,      \* a union record handed to the JSON encoder
    jsonOut       \* the JSON object the encoder wrote for jsonRec

vars == <<doc, tables, files, dirExists, pc, pos, bqCalls, fsCalls,
          loadResult, exportResult, loadRuns, exportRuns,
          tablesBefore, filesBefore, loadSteps, exportSteps, loadsOk,
          event, triggerResult, jsonRec, jsonOut>>

\* The state of the trigger path and of the encoder.
triggerVars == <<event, triggerResult>>
jsonVars == <<jsonRec, jsonOut>>

----------------------------------------------------------------------------
\* The record model

\* The seven fields of MetricsData.
Fields == {"Events", "Images", "Leases", "Nodes", "OpenshiftBuilds", "Pods",
           "TestPlatformInsights"}

\* The i-th record of category f; records are routed, not inspected.
Rec(f, i) == <<f, i>>

\* A category sequence of n records.
Records(f, n) == [i \in 1..n |-> Rec(f, i)]

\* The documents considered: every category is empty (or absent: both have
\* len 0) or holds MaxLen records.
Docs == [Fields -> {0, MaxLen}]

----------------------------------------------------------------------------
\* Errors

Nil == [kind |-> "nil", code |-> 0, wraps |-> <<>>]
\* No invocation has returned yet.
Pending == [kind |-> "pending", code |-> 0, wraps |-> <<>>]
\* A *googleapi.Error with the given HTTP code.
ApiErr(code) == [kind |-> "api", code |-> code, wraps |-> <<>>]
\* Any other error value.
PlainErr == [kind |-> "plain", code |-> 0, wraps |-> <<>>]

\* fmt.Errorf("<text> <arg>: %w", err); the outermost wrap comes first.
Wrap(text, arg, err) ==
    [err EXCEPT !.wraps = <<[text |-> text, arg |-> arg]>> \o @]

isAlreadyExistsErrorNever(err) == FALSE

isAlreadyExistsErrorAnyApi(err) ==
    IF err = Nil THEN FALSE
    ELSE err.kind = "api"

isAlreadyExistsError(err) ==
    IF err = Nil THEN FALSE
    ELSE IF err.kind = "api" THEN err.code = StatusConflict
    ELSE FALSE

----------------------------------------------------------------------------
\* The warehouse sink

LoadOrderNodesTwice == <<"Images", "Nodes", "Nodes", "TestPlatformInsights",
                         "Leases", "OpenshiftBuilds", "Pods", "Events">>
LoadOrderLeasesFirst == <<"Images", "Nodes", "Leases", "OpenshiftBuilds",
                          "Pods", "TestPlatformInsights", "Events">>

\* The order of the load calls in LoadMetricsData.
LoadOrder == <<"Images", "Nodes", "TestPlatformInsights", "Leases",
               "OpenshiftBuilds", "Pods", "Events">>

LoadLabelCopied(f) ==
    CASE f = "Images" -> "images"
      [] f = "Nodes" -> "nodes"
      [] f = "TestPlatformInsights" -> "nodes"
      [] f = "Leases" -> "leases"
      [] f = "OpenshiftBuilds" -> "builds"
      [] f = "Pods" -> "pods"
      [] f = "Events" -> "events"

\* The name LoadMetricsData wraps a category's error with.
LoadLabel(f) ==
    CASE f = "Images" -> "images"
      [] f = "Nodes" -> "nodes"
      [] f = "TestPlatformInsights" -> "insights"
      [] f = "Leases" -> "leases"
      [] f = "OpenshiftBuilds" -> "builds"
      [] f = "Pods" -> "pods"
      [] f = "Events" -> "events"

TableOfBuilds(f) ==
    CASE f = "Images" -> "images"
      [] f = "Nodes" -> "nodes"
      [] f = "TestPlatformInsights" -> "test_platform_insights"
      [] f = "Leases" -> "leases"
      [] f = "OpenshiftBuilds" -> "builds"
      [] f = "Pods" -> "pods"
      [] f = "Events" -> "events"

\* The table each load function opens with dataset.Table(...).
TableOf(f) ==
    CASE f = "Images" -> "images"
      [] f = "Nodes" -> "nodes"
      [] f = "TestPlatformInsights" -> "test_platform_insights"
      [] f = "Leases" -> "leases"
      [] f = "OpenshiftBuilds" -> "openshift_builds"
      [] f = "Pods" -> "pods"
      [] f = "Events" -> "events"

TableNames == {TableOf(f) : f \in Fields}

\* bigquery.InferSchema on the category's record type.
InferOutcomes == {Nil, PlainErr}

\* table.Create: a table that exists answers 409; any call may fail otherwise
\* (403 stands for the API errors that are not conflicts).
CreateOutcomes(t) ==
    (IF tables[t].exists THEN {ApiErr(StatusConflict)} ELSE {Nil})
        \cup {ApiErr(403), PlainErr}

\* inserter.Put: all rows are stored, or the call fails after storing k of them.
PutOutcomes(rows) ==
    {[err |-> Nil, stored |-> Len(rows)]}
        \cup {[err |-> PlainErr, stored |-> k] : k \in 0..(Len(rows) - 1)}

Call(op, f, name, err, n) ==
    [op |-> op, cat |-> f, name |-> name, err |-> err, n |-> n]

LoadAbortsNever(err) == FALSE

\* LoadMetricsData returns as soon as a load function returned an error.
LoadAborts(err) == err # Nil

SkipLoadNever(rows) == FALSE

\* The len(...) == 0 early return of every load function.
SkipLoad(rows) == Len(rows) = 0

\* The effect of one load function (loadImages, ..., loadEvents) on category f
\* and of the check LoadMetricsData makes on its result.
loadTable(f) ==
    /\ pc = "load"
    /\ pos <= Len(LoadOrder)
    /\ LoadOrder[pos] = f
    /\ LET t == TableOf(f)
           rows == doc[f]
           Return(err, tbls, calls) ==
               /\ tables' = tbls
               /\ bqCalls' = bqCalls \o calls
               /\ IF LoadAborts(err)
                  THEN /\ loadResult' = Wrap("failed to load", LoadLabel(f), err)
                       /\ pc' = "idle"
                       /\ pos' = pos
                  ELSE /\ loadResult' = loadResult
                       /\ pc' = pc
                       /\ pos' = pos + 1
       IN  IF SkipLoad(rows)
           THEN Return(Nil, tables, <<>>)
           ELSE \E serr \in InferOutcomes :
                  IF serr # Nil
                  THEN Return(Wrap("failed to infer schema", "", serr), tables,
                              <<Call("infer", f, t, serr, 0)>>)
                  ELSE \E cerr \in CreateOutcomes(t) :
                    LET created == IF cerr = Nil
                                   THEN [tables EXCEPT ![t].exists = TRUE]
                                   ELSE tables
                        c1 == <<Call("infer", f, t, serr, 0),
                                Call("create", f, t, cerr, 0)>>
                    IN  IF cerr # Nil /\ ~isAlreadyExistsError(cerr)
                        THEN Return(Wrap("failed to create table", "", cerr),
                                    created, c1)
                        ELSE \E put \in PutOutcomes(rows) :
                          LET stored == [created EXCEPT ![t].rows =
                                            @ \o SubSeq(rows, 1, put.stored)]
                              c2 == c1 \o <<Call("put", f, t, put.err, Len(rows))>>
                          IN  IF put.err # Nil
                              THEN Return(Wrap("failed to insert", LoadLabel(f),
                                               put.err), stored, c2)
                              ELSE Return(Nil, stored, c2)
    /\ UNCHANGED <<doc, files, dirExists, fsCalls, exportResult, loadRuns,
                   exportRuns, tablesBefore, filesBefore, loadSteps,
                   exportSteps, loadsOk, triggerVars, jsonVars>>

loadImages == loadTable("Images")
loadNodes == loadTable("Nodes")
loadInsights == loadTable("TestPlatformInsights")
loadLeases == loadTable("Leases")
loadBuilds == loadTable("OpenshiftBuilds")
loadPods == loadTable("Pods")
loadEvents == loadTable("Events")

\* What reading and decoding the GCS object can return before any dispatch.
AcquireOutcomes ==
    {Nil,
     Wrap("failed to create GCS client", "", PlainErr),
     Wrap("failed to open GCS object", "", PlainErr),
     Wrap("failed to decode JSON from GCS", "", PlainErr)}

\* One step taken before dispatch, with the error it returned.
Step(name, err) == [step |-> name, err |-> err]

\* The steps behind an outcome of AcquireOutcomes: the GCS client, the object
\* reader and the JSON decoder are tried in this order, up to the first error.
AcquireSteps(aerr) ==
    IF aerr = Nil
    THEN <<Step("gcsclient", Nil), Step("open", Nil), Step("decode", Nil)>>
    ELSE IF aerr.wraps[1].text = "failed to create GCS client"
    THEN <<Step("gcsclient", PlainErr)>>
    ELSE IF aerr.wraps[1].text = "failed to open GCS object"
    THEN <<Step("gcsclient", Nil), Step("open", PlainErr)>>
    ELSE <<Step("gcsclient", Nil), Step("open", Nil), Step("decode", PlainErr)>>

AcquireAbortsNever(err) == FALSE

\* Both sinks return as soon as the client, the reader or the decoder failed.
AcquireAborts(err) == err # Nil

\* LoadFromGCS up to its call of LoadMetricsData; `done` are the steps its
\* caller took before calling it.
LoadFromGCSAfter(done) ==
    /\ pc = "idle"
    /\ loadRuns < MaxRuns
    /\ loadRuns' = loadRuns + 1
    /\ bqCalls' = <<>>
    /\ tablesBefore' = tables
    /\ \E aerr \in AcquireOutcomes :
         /\ loadSteps' = done \o AcquireSteps(aerr)
         /\ IF AcquireAborts(aerr)
            THEN /\ loadResult' = aerr
                 /\ pc' = "idle"
                 /\ pos' = pos
            ELSE /\ loadResult' = Pending
                 /\ pc' = "load"
                 /\ pos' = 1
    /\ UNCHANGED <<doc, tables, files, dirExists, fsCalls, exportResult,
                   exportRuns, filesBefore, exportSteps, loadsOk, jsonVars>>

\* LoadFromGCS called from the command line.
LoadFromGCS == LoadFromGCSAfter(<<>>) /\ UNCHANGED triggerVars

\* The final return nil of LoadMetricsData.
LoadMetricsDataReturn ==
    /\ pc = "load"
    /\ pos = Len(LoadOrder) + 1
    /\ loadResult' = Nil
    /\ loadsOk' = loadsOk + 1
    /\ pc' = "idle"
    /\ UNCHANGED <<doc, tables, files, dirExists, pos, bqCalls, fsCalls,
                   exportResult, loadRuns, exportRuns, tablesBefore, filesBefore,
                   loadSteps, exportSteps, triggerVars, jsonVars>>

----------------------------------------------------------------------------
\* The file-export sink

\* The order of the category blocks in ExportMetricsFromGCS.
ExportOrder == <<"Images", "Nodes", "Leases", "OpenshiftBuilds", "Pods",
                 "TestPlatformInsights", "Events">>

\* The name ExportMetricsFromGCS wraps a category's error with.
ExportLabel(f) ==
    CASE f = "Images" -> "images"
      [] f = "Nodes" -> "nodes"
      [] f = "Leases" -> "leases"
      [] f = "OpenshiftBuilds" -> "builds"
      [] f = "Pods" -> "pods"
      [] f = "TestPlatformInsights" -> "insights"
      [] f = "Events" -> "events"

\* The file name each category block passes to exportTable.
FileOf(f) ==
    CASE f = "Images" -> "images.json"
      [] f = "Nodes" -> "nodes.json"
      [] f = "Leases" -> "leases.json"
      [] f = "OpenshiftBuilds" -> "openshift_builds.json"
      [] f = "Pods" -> "pods.json"
      [] f = "TestPlatformInsights" -> "test_platform_insights.json"
      [] f = "Events" -> "events.json"

FileNames == {FileOf(f) : f \in Fields}

\* os.Create: the file is created or truncated, or the call fails.
OsCreateOutcomes == {Nil, PlainErr}

\* The encode loop: every item is written as one line, or Encode fails on
\* item k + 1 after k lines were written.
EncodeOutcomes(items) ==
    {[err |-> Nil, written |-> Len(items)]}
        \cup {[err |-> PlainErr, written |-> k] : k \in 0..(Len(items) - 1)}

\* The line encoder.Encode writes for one record.
EncodeLine(r) == [json |-> r]

\* The Encode calls of a loop that wrote `written` lines and ended with err.
EncodeCalls(f, name, items, out) ==
    [i \in 1..(IF out.err = Nil THEN out.written ELSE out.written + 1) |->
        Call("encode", f, name, IF i <= out.written THEN Nil ELSE out.err, i)]

ExportAbortsNever(err) == FALSE

\* ExportMetricsFromGCS returns as soon as exportTable returned an error.
ExportAborts(err) == err # Nil

OsCreateAppend(file) == [exists |-> TRUE, lines |-> file.lines]

\* os.Create on success: the file exists and is empty, whatever it held.
OsCreate(file) == [exists |-> TRUE, lines |-> <<>>]

\* The len(...) > 0 guard of every category block.
HasItems(items) == Len(items) > 0

\* One category block of ExportMetricsFromGCS, exportTable included.
exportTable(f) ==
    /\ pc = "export"
    /\ pos <= Len(ExportOrder)
    /\ ExportOrder[pos] = f
    /\ LET name == FileOf(f)
           items == doc[f]
           Return(err, fls, calls) ==
               /\ files' = fls
               /\ fsCalls' = fsCalls \o calls
               /\ IF ExportAborts(err)
                  THEN /\ exportResult' = Wrap("failed to export", ExportLabel(f), err)
                       /\ pc' = "idle"
                       /\ pos' = pos
                  ELSE /\ exportResult' = exportResult
                       /\ pc' = pc
                       /\ pos' = pos + 1
       IN  IF ~HasItems(items)
           THEN Return(Nil, files, <<>>)
           ELSE \E oerr \in OsCreateOutcomes :
                  LET c1 == <<Call("create", f, name, oerr, 0)>>
                  IN  IF oerr # Nil
                      THEN Return(Wrap("failed to create", name, oerr), files, c1)
                      ELSE \E out \in EncodeOutcomes(items) :
                        LET written == [files EXCEPT ![name] =
                                [OsCreate(@) EXCEPT !.lines =
                                    @ \o [i \in 1..out.written |->
                                             EncodeLine(items[i])]]]
                            c2 == c1 \o EncodeCalls(f, name, items, out)
                        IN  IF out.err # Nil
                            THEN Return(Wrap("failed to encode item", "", out.err),
                                        written, c2)
                            ELSE Return(Nil, written, c2)
    /\ UNCHANGED <<doc, tables, dirExists, bqCalls, loadResult, loadRuns,
                   exportRuns, tablesBefore, filesBefore, loadSteps,
                   exportSteps, loadsOk, triggerVars, jsonVars>>

exportImages == exportTable("Images")
exportNodes == exportTable("Nodes")
exportLeases == exportTable("Leases")
exportBuilds == exportTable("OpenshiftBuilds")
exportPods == exportTable("Pods")
exportInsights == exportTable("TestPlatformInsights")
exportEvents == exportTable("Events")

\* os.MkdirAll(exportDir, 0755)
MkdirAllOutcomes == {Nil, PlainErr}

MkdirAbortsNever(err) == FALSE

\* ExportMetricsFromGCS returns when the directory could not be created.
MkdirAborts(err) == err # Nil

\* ExportMetricsFromGCS up to its first category block, called for an object
\* whose content decodes to the document d.
ExportObject(d) ==
    /\ pc = "idle"
    /\ doc' = d
    /\ exportRuns < MaxRuns
    /\ exportRuns' = exportRuns + 1
    /\ fsCalls' = <<>>
    /\ filesBefore' = files
    /\ \E aerr \in AcquireOutcomes :
         IF AcquireAborts(aerr)
         THEN /\ exportResult' = aerr
              /\ exportSteps' = AcquireSteps(aerr)
              /\ pc' = "idle"
              /\ pos' = pos
              /\ dirExists' = dirExists
         ELSE \E merr \in MkdirAllOutcomes :
              /\ exportSteps' = AcquireSteps(aerr) \o <<Step("mkdir", merr)>>
              /\ dirExists' = (dirExists \/ merr = Nil)
              /\ IF MkdirAborts(merr)
                 THEN /\ exportResult' = Wrap("failed to create export directory", "", merr)
                      /\ pc' = "idle"
                      /\ pos' = pos
                 ELSE /\ exportResult' = Pending
                      /\ pc' = "export"
                      /\ pos' = 1
    /\ UNCHANGED <<tables, files, bqCalls, loadResult, loadRuns,
                   tablesBefore, loadSteps, loadsOk, triggerVars, jsonVars>>

\* ExportMetricsFromGCS called for the same object as before.
ExportMetricsFromGCS == ExportObject(doc)

\* The documents of another object: one category more or one category less.
OtherObjects(d) ==
    {[d EXCEPT ![f] = IF Len(d[f]) = 0 THEN Records(f, MaxLen) ELSE <<>>] :
        f \in Fields}

\* ExportMetricsFromGCS called again, for another object, with the same
\* export directory.
ExportOtherObject == \E d \in OtherObjects(doc) : ExportObject(d)

\* The final return nil of ExportMetricsFromGCS.
ExportReturn ==
    /\ pc = "export"
    /\ pos = Len(ExportOrder) + 1
    /\ exportResult' = Nil
    /\ pc' = "idle"
    /\ UNCHANGED <<doc, tables, files, dirExists, pos, bqCalls, fsCalls,
                   loadResult, loadRuns, exportRuns, tablesBefore, filesBefore,
                   loadSteps, exportSteps, loadsOk, triggerVars, jsonVars>>

----------------------------------------------------------------------------
\* The trigger-based path (cloud function)

\* The constant MetricsFileName, "ci-operator-metrics.json", as characters.
MetricsFileName ==
    <<"c", "i", "-", "o", "p", "e", "r", "a", "t", "o", "r", "-",
      "m", "e", "t", "r", "i", "c", "s", ".", "j", "s", "o", "n">>

\* strings.HasSuffix
HasSuffix(s, suffix) ==
    /\ Len(s) >= Len(suffix)
    /\ SubSeq(s, Len(s) - Len(suffix) + 1, Len(s)) = suffix

IsMetricsFileHasPrefix(name) ==
    /\ Len(name) >= Len(MetricsFileName)
    /\ SubSeq(name, 1, Len(MetricsFileName)) = MetricsFileName

IsMetricsFile(name) == HasSuffix(name, MetricsFileName)

RejectedNever(name) == FALSE

\* The admission check of the cloud function.
Rejected(name) == ~IsMetricsFile(name)

\* The object names of the storage events considered: a stem with up to
\* MaxAffix characters before it and after it.
AffixChars == {"a", "/"}
Affixes == UNION {[1..n -> AffixChars] : n \in 0..MaxAffix}
Stems ==
    {<<>>,
     MetricsFileName,
     SubSeq(MetricsFileName, 2, Len(MetricsFileName)),
     SubSeq(MetricsFileName, 1, Len(MetricsFileName) - 1),
     <<"f", "o", "o", ".", "j", "s", "o", "n">>,
     <<"p", "a", "t", "h", "/", "t", "o", "/">> \o MetricsFileName}
Names == {p \o m \o q : p \in Affixes, m \in Stems, q \in Affixes}

\* The cloud function is running LoadFromGCS.
Running == [kind |-> "running", code |-> 0, wraps |-> <<>>]

\* fmt.Errorf("unexpected file received: %s (expected ...)", e.Name)
UnexpectedFile ==
    [kind |-> "plain", code |-> 0,
     wraps |-> <<[text |-> "unexpected file received", arg |-> ""]>>]

\* bigquery.NewClient
NewClientOutcomes == {Nil, PlainErr}

\* The cloud function LoadMetricsFromGCS, from the storage event up to the
\* call of LoadMetricsData inside LoadFromGCS.
LoadMetricsFromGCS ==
    /\ pc = "idle"
    /\ triggerResult = Pending
    /\ \E n \in Names :
         /\ event' = n
         /\ IF Rejected(n)
            THEN /\ triggerResult' = UnexpectedFile
                 /\ UNCHANGED <<doc, tables, files, dirExists, pc, pos, bqCalls,
                                fsCalls, loadResult, exportResult, loadRuns,
                                exportRuns, tablesBefore, filesBefore, loadSteps,
                                exportSteps, loadsOk, jsonVars>>
            ELSE \E berr \in NewClientOutcomes :
                   IF berr # Nil
                   THEN /\ triggerResult' =
                              Wrap("failed to create BigQuery client", "", berr)
                        /\ loadSteps' = <<Step("bqclient", berr)>>
                        /\ UNCHANGED <<doc, tables, files, dirExists, pc, pos,
                                       bqCalls, fsCalls, loadResult, exportResult,
                                       loadRuns, exportRuns, tablesBefore,
                                       filesBefore, exportSteps, loadsOk, jsonVars>>
                   ELSE /\ triggerResult' = Running
                        /\ LoadFromGCSAfter(<<Step("bqclient", berr)>>)

\* The cloud function returns what LoadFromGCS returned, wrapped if an error.
LoadMetricsFromGCSReturn ==
    /\ pc = "idle"
    /\ triggerResult = Running
    /\ triggerResult' = IF loadResult # Nil
                        THEN Wrap("failed to load metrics", "", loadResult)
                        ELSE Nil
    /\ UNCHANGED <<doc, tables, files, dirExists, pc, pos, bqCalls, fsCalls,
                   loadResult, exportResult, loadRuns, exportRuns, tablesBefore,
                   filesBefore, loadSteps, exportSteps, loadsOk, event, jsonVars>>

----------------------------------------------------------------------------
\* JSON encoding of the union records

\* No record has been handed to the encoder / nothing has been written.
NoRecord == [type |-> "none", fields |-> <<>>]
NoOutput == [written |-> FALSE, object |-> <<>>]

\* A struct field: its json key, its Go kind and whether its tag says omitempty.
Field(key, kind, omitempty) == [key |-> key, kind |-> kind, omitempty |-> omitempty]

LeaseEventUnionNoOmit ==
    <<Field("name", "string", TRUE),
      Field("slice", "string", TRUE),
      Field("region", "string", TRUE),
      Field("raw_lease_name", "string", TRUE),
      Field("acquisition_duration_seconds", "float", TRUE),
      Field("release_duration_seconds", "float", FALSE),
      Field("leases_remaining_at_acquisition", "int", TRUE),
      Field("leases_available_at_release", "int", TRUE),
      Field("leases_total", "int", TRUE),
      Field("released", "bool", TRUE),
      Field("error", "string", TRUE),
      Field("timestamp", "time", FALSE)>>

\* The fields of LeaseEventUnion, in declaration order.
LeaseEventUnion ==
    <<Field("name", "string", TRUE),
      Field("slice", "string", TRUE),
      Field("region", "string", TRUE),
      Field("raw_lease_name", "string", TRUE),
      Field("acquisition_duration_seconds", "float", TRUE),
      Field("release_duration_seconds", "float", TRUE),
      Field("leases_remaining_at_acquisition", "int", TRUE),
      Field("leases_available_at_release", "int", TRUE),
      Field("leases_total", "int", TRUE),
      Field("released", "bool", TRUE),
      Field("error", "string", TRUE),
      Field("timestamp", "time", FALSE)>>

\* The fields of ImageEventUnion, in declaration order.
ImageEventUnion ==
    <<Field("namespace", "string", TRUE),
      Field("image_stream_name", "string", TRUE),
      Field("full_name", "string", TRUE),
      Field("tag_name", "string", TRUE),
      Field("full_tag_name", "string", TRUE),
      Field("source_image", "string", TRUE),
      Field("source_image_kind", "string", TRUE),
      Field("start_time", "time", TRUE),
      Field("completion_time", "time", TRUE),
      Field("duration_seconds", "float", TRUE),
      Field("retry_count", "int", TRUE),
      Field("success", "bool", TRUE),
      Field("error", "string", TRUE),
      Field("image_stream_details", "map", TRUE),
      Field("additional_context", "map", TRUE),
      Field("timestamp", "time", FALSE)>>

StructOf(type) == IF type = "lease" THEN LeaseEventUnion ELSE ImageEventUnion
KeysOf(type) == {StructOf(type)[i].key : i \in 1..Len(StructOf(type))}
FieldOf(type, key) ==
    StructOf(type)[CHOOSE i \in 1..Len(StructOf(type)) : StructOf(type)[i].key = key]

\* Go values, written as text: the zero value of each kind (what a field that
\* was never set holds) and the other values considered.
ZeroValue(kind) ==
    CASE kind = "string" -> ""
      [] kind = "float" -> "0"
      [] kind = "int" -> "0"
      [] kind = "bool" -> "false"
      [] kind = "time" -> "0001-01-01T00:00:00Z"
      [] kind = "map" -> "nil"
SetValues(kind) ==
    CASE kind = "string" -> {"x"}
      [] kind = "float" -> {"1.5"}
      [] kind = "int" -> {"1"}
      [] kind = "bool" -> {"true"}
      [] kind = "time" -> {"2024-01-01T00:00:00Z"}
      [] kind = "map" -> {"map[]", "map[k:v]"}
AllSetValues == UNION {SetValues(k) : k \in {"string", "float", "int", "bool", "time", "map"}}

\* The union records handed to the encoder: at most MaxSet fields are set.
UnionRecordsOf(type) ==
    {[type |-> type,
      fields |-> [k \in KeysOf(type) |->
                     IF k \in DOMAIN g THEN g[k] ELSE ZeroValue(FieldOf(type, k).kind)]] :
        g \in UNION {{h \in [S -> AllSetValues] :
                         \A k \in S : h[k] \in SetValues(FieldOf(type, k).kind)} :
                     S \in {T \in SUBSET KeysOf(type) : Cardinality(T) <= MaxSet}}}
UnionRecords == UnionRecordsOf("lease") \cup UnionRecordsOf("image")

\* encoding/json isEmptyValue: false, 0, empty string, nil or empty map; a
\* struct such as time.Time is never empty.
isEmptyValue(kind, v) ==
    CASE kind = "string" -> v = ""
      [] kind = "float" -> v = "0"
      [] kind = "int" -> v = "0"
      [] kind = "bool" -> v = "false"
      [] kind = "map" -> v \in {"nil", "map[]"}
      [] kind = "time" -> FALSE

\* The JSON value written for a Go value.
JSONValue(kind, v) ==
    CASE kind = "string" -> [json |-> "string", text |-> v]
      [] kind = "time" -> [json |-> "string", text |-> v]
      [] kind = "float" -> [json |-> "number", text |-> v]
      [] kind = "int" -> [json |-> "number", text |-> v]
      [] kind = "bool" -> [json |-> "bool", text |-> v]
      [] kind = "map" -> IF v = "nil" THEN [json |-> "null", text |-> "null"]
                         ELSE [json |-> "object", text |-> v]

\* The JSON object json.Marshal writes for a union record: a field is left
\* out when its tag says omitempty and its value is empty.
Marshal(rec) ==
    LET present == {k \in KeysOf(rec.type) :
                       ~(FieldOf(rec.type, k).omitempty
                         /\ isEmptyValue(FieldOf(rec.type, k).kind, rec.fields[k]))}
    IN  [k \in present |-> JSONValue(FieldOf(rec.type, k).kind, rec.fields[k])]

\* encoder.Encode(item) in exportTable, for an item of a union type.
EncodeUnionRecord ==
    /\ jsonRec = NoRecord
    /\ \E r \in UnionRecords :
         /\ jsonRec' = r
         /\ jsonOut' = [written |-> TRUE, object |-> Marshal(r)]
    /\ UNCHANGED <<doc, tables, files, dirExists, pc, pos, bqCalls, fsCalls,
                   loadResult, exportResult, loadRuns, exportRuns, tablesBefore,
                   filesBefore, loadSteps, exportSteps, loadsOk, triggerVars>>

----------------------------------------------------------------------------
\* Specifications

Init ==
    /\ doc \in {[f \in Fields |-> Records(f, d[f])] : d \in Docs}
    /\ tables = [t \in TableNames |-> [exists |-> FALSE, rows |-> <<>>]]
    /\ files = [n \in FileNames |-> [exists |-> FALSE, lines |-> <<>>]]
    /\ dirExists = FALSE
    /\ pc = "idle"
    /\ pos = 1
    /\ bqCalls = <<>>
    /\ fsCalls = <<>>
    /\ loadResult = Pending
    /\ exportResult = Pending
    /\ loadRuns = 0
    /\ exportRuns = 0
    /\ tablesBefore = tables
    /\ filesBefore = files
    /\ loadSteps = <<>>
    /\ exportSteps = <<>>
    /\ loadsOk = 0
    /\ event = <<>>
    /\ triggerResult = Pending
    /\ jsonRec = NoRecord
    /\ jsonOut = NoOutput

\* The warehouse sink, run up to MaxRuns times against the same dataset.
Next ==
    \/ LoadFromGCS
    \/ loadImages
    \/ loadNodes
    \/ loadInsights
    \/ loadLeases
    \/ loadBuilds
    \/ loadPods
    \/ loadEvents
    \/ LoadMetricsDataReturn

Spec == Init /\ [][Next]_vars

\* The file-export sink, run up to MaxRuns times into the same directory.
NextExport ==
    \/ ExportMetricsFromGCS
    \/ exportImages
    \/ exportNodes
    \/ exportLeases
    \/ exportBuilds
    \/ exportPods
    \/ exportInsights
    \/ exportEvents
    \/ ExportReturn

SpecExport == Init /\ [][NextExport]_vars

\* Both sinks, each invoked once on the same document, in either order.
NextBoth ==
    \/ loadRuns = 0 /\ LoadFromGCS
    \/ loadImages
    \/ loadNodes
    \/ loadInsights
    \/ loadLeases
    \/ loadBuilds
    \/ loadPods
    \/ loadEvents
    \/ LoadMetricsDataReturn
    \/ exportRuns = 0 /\ ExportMetricsFromGCS
    \/ exportImages
    \/ exportNodes
    \/ exportLeases
    \/ exportBuilds
    \/ exportPods
    \/ exportInsights
    \/ exportEvents
    \/ ExportReturn

SpecBoth == Init /\ [][NextBoth]_vars

\* One storage event delivered to the cloud function.
NextTrigger ==
    \/ LoadMetricsFromGCS
    \/ loadImages
    \/ loadNodes
    \/ loadInsights
    \/ loadLeases
    \/ loadBuilds
    \/ loadPods
    \/ loadEvents
    \/ LoadMetricsDataReturn
    \/ LoadMetricsFromGCSReturn

SpecTrigger == Init /\ [][NextTrigger]_vars

\* Two Exports into the same directory, the second one of the same object or
\* of another one.
NextReexport ==
    \/ exportRuns <= 1 /\ ExportMetricsFromGCS
    \/ exportRuns = 1 /\ ExportOtherObject
    \/ exportImages
    \/ exportNodes
    \/ exportLeases
    \/ exportBuilds
    \/ exportPods
    \/ exportInsights
    \/ exportEvents
    \/ ExportReturn

SpecReexport == Init /\ [][NextReexport]_vars

\* The encoder applied to one union record.
NextJson == EncodeUnionRecord

SpecJson == Init /\ [][NextJson]_vars

----------------------------------------------------------------------------
\* What the specification states, in its own terms

\* The fixed dispatch order: images, nodes, insights, leases, builds, pods, events.
FixedOrder == <<"Images", "Nodes", "TestPlatformInsights", "Leases",
                "OpenshiftBuilds", "Pods", "Events">>

IndexIn(order, f) == CHOOSE i \in 1..Len(order) : order[i] = f

\* The place of each category in the fixed order, and in the export sink's order.
FixedIdx == [f \in Fields |-> IndexIn(FixedOrder, f)]
ExportIdx == [f \in Fields |-> IndexIn(ExportOrder, f)]

\* The destination name the specification gives each category.
DestName(f) ==
    CASE f = "Events" -> "events"
      [] f = "Images" -> "images"
      [] f = "Leases" -> "leases"
      [] f = "Nodes" -> "nodes"
      [] f = "OpenshiftBuilds" -> "openshift_builds"
      [] f = "Pods" -> "pods"
      [] f = "TestPlatformInsights" -> "test_platform_insights"

\* The name the specification's glossary gives each category.
CategoryName(f) ==
    CASE f = "Events" -> "events"
      [] f = "Images" -> "images"
      [] f = "Leases" -> "leases"
      [] f = "Nodes" -> "nodes"
      [] f = "OpenshiftBuilds" -> "builds"
      [] f = "Pods" -> "pods"
      [] f = "TestPlatformInsights" -> "insights"

NonEmpty(f) == Len(doc[f]) > 0
AllEmpty == \A f \in Fields : ~NonEmpty(f)

ConflictClass(err) == err.kind = "api" /\ err.code = StatusConflict
IsError(res) == res.kind \in {"api", "plain"}
Returned(res) == res.kind # "pending"

\* The creation and write calls of a log that failed (conflicts are no failures).
DestOps == {"create", "put", "encode"}
FailedAt(calls) ==
    {i \in 1..Len(calls) : /\ calls[i].op \in DestOps
                           /\ calls[i].err # Nil
                           /\ ~ConflictClass(calls[i].err)}
FirstFailed(calls) ==
    LET failed == FailedAt(calls)
    IN  CHOOSE i \in failed : \A j \in failed : i <= j
CallsOf(calls, op, f) ==
    {i \in 1..Len(calls) : calls[i].op = op /\ calls[i].cat = f}
CatsIn(calls) == {calls[i].cat : i \in 1..Len(calls)}

\* The categories a Load / an Export wrote completely.
LoadWritten ==
    {f \in Fields : \E i \in CallsOf(bqCalls, "put", f) : bqCalls[i].err = Nil}
ExportWritten ==
    {f \in Fields : \E i \in CallsOf(fsCalls, "encode", f) :
                       fsCalls[i].err = Nil /\ fsCalls[i].n = Len(doc[f])}

\* The categories an error names, by category name or by destination file.
NamedCategories(err) ==
    {f \in Fields : \E i \in 1..Len(err.wraps) :
        err.wraps[i].arg \in {CategoryName(f), DestName(f) \o ".json"}}

LoadDone == pc # "load" /\ Returned(loadResult)
ExportDone == pc # "export" /\ Returned(exportResult)


\* "n ends with the literal suffix ci-operator-metrics.json": n is some prefix
\* followed by the 24 characters of the literal.
SuffixLiteral ==
    <<"c", "i", "-", "o", "p", "e", "r", "a", "t", "o", "r", "-",
      "m", "e", "t", "r", "i", "c", "s", ".", "j", "s", "o", "n">>
EndsWithLiteral(n) == \E k \in 0..Len(n) : n = SubSeq(n, 1, k) \o SuffixLiteral

TriggerInvoked == triggerResult # Pending
FooJson == <<"f", "o", "o", ".", "j", "s", "o", "n">>
PathToMetrics == <<"p", "a", "t", "h", "/", "t", "o", "/">> \o SuffixLiteral

\* C11: the cloud function admits an object name exactly when the name ends
\* with the literal suffix ci-operator-metrics.json: foo.json and the empty
\* name are not metrics files, path/to/ci-operator-metrics.json is one.
C11_IsMetricsFileIffSuffix ==
    /\ TriggerInvoked =>
         /\ IsMetricsFile(event) <=> EndsWithLiteral(event)
         /\ (triggerResult = UnexpectedFile) <=> ~EndsWithLiteral(event)
    /\ (TriggerInvoked /\ event \in {FooJson, <<>>}) => triggerResult = UnexpectedFile
    /\ (TriggerInvoked /\ event = PathToMetrics) => triggerResult # UnexpectedFile

C11_Witness ==
    /\ event = PathToMetrics
    /\ triggerResult = Nil

\* C12: an event whose object name does not end with the literal suffix is
\* rejected with an error and nothing else happens: no client is created,
\* nothing is read or decoded, no create or write call is issued and no table
\* changes; any such processing implies that the name passed the check.
C12_RejectedBeforeProcessing ==
    /\ (TriggerInvoked /\ ~EndsWithLiteral(event)) =>
         /\ triggerResult = UnexpectedFile
         /\ pc = "idle"
         /\ loadSteps = <<>>
         /\ bqCalls = <<>>
         /\ loadRuns = 0
         /\ loadResult = Pending
         /\ \A t \in DOMAIN tables : ~tables[t].exists /\ tables[t].rows = <<>>
    /\ (loadSteps # <<>> \/ bqCalls # <<>> \/ pc = "load") =>
         /\ EndsWithLiteral(event)
         /\ loadSteps[1].step = "bqclient"

C12_Witness ==
    /\ event = SuffixLiteral \o <<"a">>
    /\ triggerResult = UnexpectedFile
    /\ \E f \in Fields : NonEmpty(f)

C12_WitnessAdmitted ==
    /\ EndsWithLiteral(event)
    /\ triggerResult = Nil
    /\ bqCalls # <<>>

----------------------------------------------------------------------------
\* C1: the create/insert calls of a Load follow the fixed order images, nodes,
\* insights, leases, builds, pods, events: a call for a category never comes
\* before a call for a category earlier in that order, so the calls of one
\* category are contiguous.
C1_LoadFixedOrder ==
    \A i \in 1..Len(bqCalls) : \A j \in (i + 1)..Len(bqCalls) :
        FixedIdx[bqCalls[i].cat] <= FixedIdx[bqCalls[j].cat]

C1_Witness ==
    /\ loadResult = Nil
    /\ \A f \in Fields : CallsOf(bqCalls, "create", f) # {} /\ CallsOf(bqCalls, "put", f) # {}

\* C2: when a Load and an Export of the same document both abort on a failure
\* at the same category, the categories written before the abort are the same.
C2_SameWrittenBeforeAbort ==
    (/\ LoadDone /\ ExportDone
     /\ FailedAt(bqCalls) # {} /\ FailedAt(fsCalls) # {}
     /\ bqCalls[FirstFailed(bqCalls)].cat = fsCalls[FirstFailed(fsCalls)].cat)
    => LoadWritten = ExportWritten

\* C3: an empty category causes no creation call, no write call, no table and
\* no file in either sink; a table or file exists only if a creation call for
\* its non-empty category succeeded; with every category empty both sinks,
\* once they hold the decoded document, return success without any call.
C3_EmptyCategorySkipped ==
    /\ \A i \in 1..Len(bqCalls) : NonEmpty(bqCalls[i].cat)
    /\ \A i \in 1..Len(fsCalls) : NonEmpty(fsCalls[i].cat)
    /\ \A f \in Fields :
         /\ ~NonEmpty(f) =>
              /\ ~tables[DestName(f)].exists /\ tables[DestName(f)].rows = <<>>
              /\ ~files[DestName(f) \o ".json"].exists
         /\ tables[DestName(f)].exists =>
              \E i \in CallsOf(bqCalls, "create", f) : bqCalls[i].err = Nil
         /\ files[DestName(f) \o ".json"].exists =>
              \E i \in CallsOf(fsCalls, "create", f) : fsCalls[i].err = Nil
    /\ (AllEmpty /\ LoadDone /\ loadResult \notin AcquireOutcomes)
         => loadResult = Nil /\ bqCalls = <<>>
    /\ (AllEmpty /\ ExportDone /\ dirExists)
         => exportResult = Nil /\ fsCalls = <<>>

C3_Witness ==
    /\ AllEmpty
    /\ loadResult = Nil /\ exportResult = Nil
    /\ bqCalls = <<>> /\ fsCalls = <<>>

C5_CreateFailureAborts ==
    \A i \in 1..Len(bqCalls) :
        (/\ bqCalls[i].op = "create"
         /\ bqCalls[i].err # Nil
         /\ ~ConflictClass(bqCalls[i].err)) =>
            /\ i = Len(bqCalls)
            /\ pc = "idle"
            /\ IsError(loadResult)
            /\ CallsOf(bqCalls, "put", bqCalls[i].cat) = {}
            /\ \A f \in Fields :
                 FixedIdx[f] > FixedIdx[bqCalls[i].cat]
                    => f \notin CatsIn(bqCalls)

C5_Witness ==
    /\ NonEmpty("Images") /\ NonEmpty("OpenshiftBuilds")
    /\ FailedAt(bqCalls) # {}
    /\ bqCalls[FirstFailed(bqCalls)].op = "create"
    /\ bqCalls[FirstFailed(bqCalls)].cat = "Leases"
    /\ bqCalls[FirstFailed(bqCalls)].err.kind = "api"
    /\ IsError(loadResult)

\* C6: a bulk write that fails is the last call of the Load: Load has returned
\* an error and attempted no later category, while every non-empty category
\* earlier in the fixed order has been created (or found) and written.
C6_WriteFailureAborts ==
    \A i \in 1..Len(bqCalls) :
        (bqCalls[i].op = "put" /\ bqCalls[i].err # Nil) =>
            /\ i = Len(bqCalls)
            /\ pc = "idle"
            /\ IsError(loadResult)
            /\ \A f \in Fields :
                 /\ FixedIdx[f] > FixedIdx[bqCalls[i].cat]
                      => f \notin CatsIn(bqCalls)
                 /\ (FixedIdx[f] < FixedIdx[bqCalls[i].cat]
                     /\ NonEmpty(f))
                      => /\ \E j \in CallsOf(bqCalls, "create", f) :
                               j < i /\ (bqCalls[j].err = Nil \/ ConflictClass(bqCalls[j].err))
                         /\ \E j \in CallsOf(bqCalls, "put", f) :
                               j < i /\ bqCalls[j].err = Nil

C6_Witness ==
    /\ NonEmpty("Images") /\ NonEmpty("OpenshiftBuilds")
    /\ FailedAt(bqCalls) # {}
    /\ bqCalls[FirstFailed(bqCalls)].op = "put"
    /\ bqCalls[FirstFailed(bqCalls)].cat = "Leases"
    /\ IsError(loadResult)
    /\ "Images" \in LoadWritten

\* The table of category f is as it was when the last Load started.
Untouched(f) == tables[DestName(f)] = tablesBefore[DestName(f)]
\* The last Load appended every record of category f to its table.
FullyAppended(f) ==
    /\ tables[DestName(f)].exists
    /\ tables[DestName(f)].rows = tablesBefore[DestName(f)].rows \o doc[f]

\* C7 as stated: after a Load that failed in category c on a creation or a
\* write, the non-empty categories before c are written, and the destination of
\* c and of every later category is as it was before the Load.
C7_FailingCategoryUntouched ==
    (LoadDone /\ FailedAt(bqCalls) # {}) =>
        LET c == bqCalls[FirstFailed(bqCalls)].cat
        IN  \A f \in Fields :
              /\ (FixedIdx[f] < FixedIdx[c] /\ NonEmpty(f)) => FullyAppended(f)
              /\ FixedIdx[f] >= FixedIdx[c] => Untouched(f)

\* C7 amended: after a Load that failed in category c, the non-empty categories
\* before c are written and every category after c is untouched; c itself is
\* untouched when its creation failed, and when its write failed its table
\* exists and holds its earlier rows followed by fewer than all of c's records.
C7_LaterCategoriesUntouched ==
    (LoadDone /\ FailedAt(bqCalls) # {}) =>
        LET c == bqCalls[FirstFailed(bqCalls)].cat
            op == bqCalls[FirstFailed(bqCalls)].op
        IN  /\ \A f \in Fields :
                 /\ (FixedIdx[f] < FixedIdx[c] /\ NonEmpty(f)) => FullyAppended(f)
                 /\ FixedIdx[f] > FixedIdx[c] => Untouched(f)
            /\ op = "create" => Untouched(c)
            /\ op = "put" =>
                 /\ tables[DestName(c)].exists
                 /\ \E k \in 0..(Len(doc[c]) - 1) :
                      tables[DestName(c)].rows =
                         tablesBefore[DestName(c)].rows \o SubSeq(doc[c], 1, k)

C7_Witness ==
    /\ LoadDone /\ FailedAt(bqCalls) # {}
    /\ bqCalls[FirstFailed(bqCalls)].cat = "Leases"
    /\ bqCalls[FirstFailed(bqCalls)].op = "put"
    /\ NonEmpty("Images") /\ NonEmpty("OpenshiftBuilds")
    /\ ~tablesBefore["leases"].exists /\ tables["leases"].exists
    /\ FullyAppended("Images") /\ Untouched("OpenshiftBuilds")

\* C8: when a creation or write call of a sink failed, the sink has returned
\* an error (never nil) that names exactly one category: the category of the
\* first failed call.
C8_ErrorNamesFailingCategory ==
    /\ FailedAt(bqCalls) # {} =>
         /\ IsError(loadResult)
         /\ NamedCategories(loadResult) = {bqCalls[FirstFailed(bqCalls)].cat}
         /\ Cardinality(FailedAt(bqCalls)) = 1
    /\ FailedAt(fsCalls) # {} =>
         /\ IsError(exportResult)
         /\ NamedCategories(exportResult) = {fsCalls[FirstFailed(fsCalls)].cat}
         /\ Cardinality(FailedAt(fsCalls)) = 1

C8_Witness ==
    /\ FailedAt(bqCalls) # {} /\ FailedAt(fsCalls) # {}
    /\ bqCalls[FirstFailed(bqCalls)].cat = "TestPlatformInsights"
    /\ fsCalls[FirstFailed(fsCalls)].cat = "OpenshiftBuilds"
    /\ fsCalls[FirstFailed(fsCalls)].op = "create"
    /\ "Images" \in LoadWritten /\ "Images" \in ExportWritten

\* The lines an Export writes for category f.
ExportedLines(f) == [i \in 1..Len(doc[f]) |-> EncodeLine(doc[f][i])]

\* C9: a file creation or an encode that fails is the last call of the Export:
\* Export has returned an error, the files of the non-empty categories earlier
\* in the export order hold all their records, and the files of the categories
\* after the failing one are as they were before the Export.
C9_ExportFailureAborts ==
    \A i \in FailedAt(fsCalls) :
        /\ i = Len(fsCalls)
        /\ pc = "idle"
        /\ IsError(exportResult)
        /\ \A f \in Fields :
             /\ (ExportIdx[f] < ExportIdx[fsCalls[i].cat]
                 /\ NonEmpty(f))
                  => /\ files[DestName(f) \o ".json"].exists
                     /\ files[DestName(f) \o ".json"].lines = ExportedLines(f)
             /\ ExportIdx[f] > ExportIdx[fsCalls[i].cat]
                  => /\ files[DestName(f) \o ".json"] = filesBefore[DestName(f) \o ".json"]
                     /\ f \notin CatsIn(fsCalls)

C9_Witness ==
    /\ FailedAt(fsCalls) # {}
    /\ fsCalls[FirstFailed(fsCalls)].cat = "Leases"
    /\ fsCalls[FirstFailed(fsCalls)].op = "encode"
    /\ NonEmpty("Images") /\ NonEmpty("Pods")
    /\ files["images.json"].lines = ExportedLines("Images")
    /\ ~files["pods.json"].exists
    /\ IsError(exportResult)

\* C10: every call of the warehouse sink for a category goes to the table the
\* specification names for it, every call of the export sink to the file of
\* that name followed by .json, a destination only ever receives records of
\* its own category, and no two categories share a destination name.
C10_SameNameMapping ==
    /\ \A i \in 1..Len(bqCalls) : bqCalls[i].name = DestName(bqCalls[i].cat)
    /\ \A i \in 1..Len(fsCalls) : fsCalls[i].name = DestName(fsCalls[i].cat) \o ".json"
    /\ DOMAIN tables = {DestName(f) : f \in Fields}
    /\ DOMAIN files = {DestName(f) \o ".json" : f \in Fields}
    /\ \A f \in Fields :
         /\ \A k \in 1..Len(tables[DestName(f)].rows) :
              tables[DestName(f)].rows[k][1] = f
         /\ \A k \in 1..Len(files[DestName(f) \o ".json"].lines) :
              files[DestName(f) \o ".json"].lines[k].json[1] = f
    /\ \A f, g \in Fields : DestName(f) = DestName(g) => f = g

C10_Witness ==
    /\ loadResult = Nil /\ exportResult = Nil
    /\ \A f \in Fields :
         /\ Len(tables[DestName(f)].rows) = MaxLen
         /\ Len(files[DestName(f) \o ".json"].lines) = MaxLen

StepFailed(steps, name) ==
    \E i \in 1..Len(steps) : steps[i].step = name /\ steps[i].err # Nil
StepOk(steps, name) ==
    \E i \in 1..Len(steps) : steps[i].step = name /\ steps[i].err = Nil
DecodeError(res) ==
    /\ IsError(res)
    /\ res.wraps[1].text = "failed to decode JSON from GCS"

\* C13: when the input cannot be decoded the invocation returns a decode error
\* and no category is processed: a Load issues no create or write call and
\* leaves every table as it was, an Export writes no file; a sink dispatches
\* only after its decode succeeded.
C13_DecodeFailureProcessesNothing ==
    /\ StepFailed(loadSteps, "decode") =>
         /\ pc # "load"
         /\ DecodeError(loadResult)
         /\ bqCalls = <<>>
         /\ tables = tablesBefore
    /\ StepFailed(exportSteps, "decode") =>
         /\ pc # "export"
         /\ DecodeError(exportResult)
         /\ fsCalls = <<>>
         /\ files = filesBefore
    /\ (pc = "load" \/ bqCalls # <<>>) => StepOk(loadSteps, "decode")
    /\ (pc = "export" \/ fsCalls # <<>>) => StepOk(exportSteps, "decode")

C13_Witness ==
    /\ StepFailed(loadSteps, "decode")
    /\ StepFailed(exportSteps, "decode")
    /\ \A f \in Fields : NonEmpty(f)
    /\ DecodeError(loadResult) /\ DecodeError(exportResult)

\* k copies of a sequence, one after the other.
RECURSIVE Repeat(_, _)
Repeat(seq, k) == IF k = 0 THEN <<>> ELSE seq \o Repeat(seq, k - 1)

\* Every Load before the last one returned nil.
EarlierLoadsOk ==
    IF loadResult = Nil THEN loadsOk = loadRuns ELSE loadsOk + 1 = loadRuns
\* Nothing failed in the last Load, conflicts on creation aside.
NoLoadFailure ==
    /\ \A i \in 1..Len(loadSteps) : loadSteps[i].err = Nil
    /\ \A i \in 1..Len(bqCalls) :
         bqCalls[i].err = Nil \/ ConflictClass(bqCalls[i].err)

\* C14: a Load of the same document that follows only successful Loads and in
\* which nothing but already-exists conflicts occurs succeeds too; its create
\* calls are then all answered with a conflict, and after k successful Loads
\* every table holds the category's records k times over, in order.
C14_RepeatedLoadDuplicates ==
    (LoadDone /\ loadRuns >= 1 /\ EarlierLoadsOk /\ NoLoadFailure) =>
        /\ loadResult = Nil
        /\ loadsOk = loadRuns
        /\ \A f \in Fields :
             /\ tables[DestName(f)].rows = Repeat(doc[f], loadRuns)
             /\ Len(tables[DestName(f)].rows) = loadRuns * Len(doc[f])
        /\ loadRuns >= 2 =>
             \A i \in 1..Len(bqCalls) :
                bqCalls[i].op = "create" => ConflictClass(bqCalls[i].err)

C14_Witness ==
    /\ LoadDone /\ loadRuns = 2 /\ loadsOk = 2
    /\ \A f \in Fields : Len(tables[DestName(f)].rows) = 2 * MaxLen
    /\ \E i \in 1..Len(bqCalls) : ConflictClass(bqCalls[i].err)

\* A field of the encoded record that was never set.
Unset(key) == jsonRec.fields[key] = ZeroValue(FieldOf(jsonRec.type, key).kind)
InOutput(key) == key \in DOMAIN jsonOut.object

\* C16: no unset field of a union record appears as a key of its serialized
\* output, whatever the field's kind (timestamps and maps included).
C16_UnsetFieldsAbsent ==
    jsonOut.written => \A key \in KeysOf(jsonRec.type) : Unset(key) => ~InOutput(key)

\* C17: a lease record whose release-side fields are unset is serialized
\* without release_duration_seconds and leases_available_at_release, and one
\* whose acquisition-side fields are unset without acquisition_duration_seconds
\* and leases_remaining_at_acquisition.
C17_LeaseSidesOmitted ==
    (jsonOut.written /\ jsonRec.type = "lease") =>
        /\ (Unset("release_duration_seconds") /\ Unset("leases_available_at_release"))
             => /\ ~InOutput("release_duration_seconds")
                /\ ~InOutput("leases_available_at_release")
        /\ (Unset("acquisition_duration_seconds") /\ Unset("leases_remaining_at_acquisition"))
             => /\ ~InOutput("acquisition_duration_seconds")
                /\ ~InOutput("leases_remaining_at_acquisition")

C17_Witness ==
    /\ jsonOut.written /\ jsonRec.type = "lease"
    /\ ~Unset("acquisition_duration_seconds")
    /\ ~Unset("leases_remaining_at_acquisition")
    /\ Unset("release_duration_seconds") /\ Unset("leases_available_at_release")
    /\ InOutput("acquisition_duration_seconds")
    /\ InOutput("leases_remaining_at_acquisition")
    /\ ~InOutput("release_duration_seconds")

\* A category the dispatch of the current Load has reached and found non-empty:
\* its load function got past the emptiness test and issued a call.
Reached(f) == NonEmpty(f) /\ \E i \in 1..Len(bqCalls) : bqCalls[i].cat = f
\* Calls that returned an error the load function does not tolerate.
FatalCalls ==
    {i \in 1..Len(bqCalls) : bqCalls[i].err # Nil /\ ~ConflictClass(bqCalls[i].err)}

\* C18 as stated: every non-empty category that dispatch reaches gets exactly
\* one create-destination call.
C18_ExactlyOneCreate ==
    \A f \in Fields : Reached(f) => Cardinality(CallsOf(bqCalls, "create", f)) = 1

\* C18, amended: within one Load, a reached non-empty category whose schema
\* was inferred gets exactly one create call, before its bulk write; a category
\* whose schema inference failed gets no create and no write; there is at most
\* one write per category and it carries every record of the category; and
\* nothing is called after a failure (no retry).
C18_OneCreateThenOneWrite ==
    /\ \A f \in Fields :
         LET calls == {i \in 1..Len(bqCalls) : bqCalls[i].cat = f}
             creates == {i \in calls : bqCalls[i].op = "create"}
             puts == {i \in calls : bqCalls[i].op = "put"}
             inferred == \E i \in calls :
                            bqCalls[i].op = "infer" /\ bqCalls[i].err = Nil
         IN  IF calls = {}
             THEN TRUE
             ELSE /\ NonEmpty(f)
                  /\ Cardinality(creates) <= 1
                  /\ Cardinality(puts) <= 1
                  /\ inferred => Cardinality(creates) = 1
                  /\ ~inferred => (creates = {} /\ puts = {})
                  /\ \A j \in puts :
                       /\ bqCalls[j].n = Len(doc[f])
                       /\ \E i \in creates :
                            /\ i < j
                            /\ bqCalls[i].err = Nil \/ ConflictClass(bqCalls[i].err)
    /\ \A i \in 1..Len(bqCalls) :
         (bqCalls[i].err # Nil /\ ~ConflictClass(bqCalls[i].err)) => i = Len(bqCalls)

C18_Witness ==
    /\ LoadDone /\ loadResult = Nil
    /\ Cardinality({f \in Fields : Reached(f)}) >= 2
    /\ \A f \in Fields :
         Reached(f) => /\ Cardinality(CallsOf(bqCalls, "create", f)) = 1
                       /\ Cardinality(CallsOf(bqCalls, "put", f)) = 1

\* A Load that stopped at a failed write: the failing call is the last one.
C18_WitnessFailure ==
    /\ LoadDone /\ IsError(loadResult)
    /\ \E i \in FatalCalls : bqCalls[i].op = "put" /\ i = Len(bqCalls) /\ i > 3

StepIndex(steps, name) == CHOOSE i \in 1..Len(steps) : steps[i].step = name
HasStep(steps, name) == \E i \in 1..Len(steps) : steps[i].step = name

\* C19: Export creates the target directory after a successful decode and
\* before any category file is written; when creating it fails, Export returns
\* an error and writes no category file; the directory is created even when
\* every category is empty.
C19_DirectoryBeforeFiles ==
    /\ HasStep(exportSteps, "mkdir") =>
         /\ StepOk(exportSteps, "decode")
         /\ StepIndex(exportSteps, "decode") < StepIndex(exportSteps, "mkdir")
    /\ (exportRuns >= 1 /\ ~StepOk(exportSteps, "decode")) =>
         /\ ~HasStep(exportSteps, "mkdir")
         /\ fsCalls = <<>>
         /\ IsError(exportResult)
    /\ (pc = "export" \/ fsCalls # <<>>) =>
         /\ StepOk(exportSteps, "mkdir")
         /\ dirExists
    /\ StepFailed(exportSteps, "mkdir") =>
         /\ pc # "export"
         /\ IsError(exportResult)
         /\ exportResult.wraps[1].text = "failed to create export directory"
         /\ fsCalls = <<>>
         /\ files = filesBefore
    /\ StepOk(exportSteps, "mkdir") => dirExists
    /\ (ExportDone /\ exportResult = Nil /\ AllEmpty) =>
         /\ StepOk(exportSteps, "mkdir")
         /\ dirExists
         /\ fsCalls = <<>>

C19_Witness ==
    /\ ExportDone /\ ~AllEmpty
    /\ StepOk(exportSteps, "decode")
    /\ StepFailed(exportSteps, "mkdir")
    /\ IsError(exportResult)
    /\ fsCalls = <<>>

\* An Export of a document with no records at all: only the directory is made.
C19_WitnessAllEmpty ==
    /\ ExportDone /\ AllEmpty /\ exportRuns = 1
    /\ exportResult = Nil
    /\ dirExists
    /\ fsCalls = <<>>

\* LoadMetricsData was called in the current invocation: the document was read
\* and decoded.
LoadCalled == loadRuns >= 1 /\ StepOk(loadSteps, "decode")
CreatedOrFound(f) ==
    \E i \in CallsOf(bqCalls, "create", f) :
       bqCalls[i].err = Nil \/ ConflictClass(bqCalls[i].err)

\* C20: LoadMetricsData returns nil exactly when every non-empty category had
\* its table created or found existing and its bulk write succeeded; after a
\* nil return every non-empty category's table holds its earlier rows followed
\* by all the category's records, put once, and no empty category's table was
\* touched.
C20_SuccessIffAllWritten ==
    (LoadDone /\ LoadCalled) =>
        /\ loadResult = Nil <=>
             \A f \in Fields :
                NonEmpty(f) => (CreatedOrFound(f) /\ f \in LoadWritten)
        /\ loadResult = Nil =>
             \A f \in Fields :
                IF NonEmpty(f)
                THEN /\ FullyAppended(f)
                     /\ Cardinality(CallsOf(bqCalls, "put", f)) = 1
                ELSE /\ Untouched(f)
                     /\ f \notin CatsIn(bqCalls)

C20_Witness ==
    /\ LoadDone /\ LoadCalled /\ loadResult = Nil
    /\ \E f \in Fields : NonEmpty(f) /\ FullyAppended(f)
    /\ \E f \in Fields : ~NonEmpty(f) /\ Untouched(f)
    /\ \E i \in 1..Len(bqCalls) : ConflictClass(bqCalls[i].err)
    /\ \E i \in 1..Len(bqCalls) : bqCalls[i].op = "create" /\ bqCalls[i].err = Nil

\* The file of a category before the current Export and now.
FileBefore(f) == filesBefore[FileOf(f)]
FileNow(f) == files[FileOf(f)]
CreatedNow(f) ==
    \E i \in 1..Len(fsCalls) :
       fsCalls[i].cat = f /\ fsCalls[i].op = "create" /\ fsCalls[i].err = Nil

\* C21: the export sink is idempotent on content. A category file is created
\* by truncating whatever file of that name exists, so after a successful
\* Export every non-empty category's file holds exactly the category's N
\* records as N lines, also when an earlier Export had already written it
\* (N lines, not 2N), and a second Export of the same document leaves every
\* file as the first left it; the file of a category that is empty in the
\* current document is never removed or modified, whatever an earlier Export
\* left there.
C21_ExportIdempotent ==
    exportRuns >= 1 =>
        /\ \A f \in Fields :
             /\ ~NonEmpty(f) => FileNow(f) = FileBefore(f)
             /\ CreatedNow(f) =>
                  /\ FileNow(f).exists
                  /\ Len(FileNow(f).lines) <= Len(doc[f])
                  /\ FileNow(f).lines =
                        SubSeq(ExportedLines(f), 1, Len(FileNow(f).lines))
             /\ (ExportDone /\ exportResult = Nil /\ NonEmpty(f)) =>
                  /\ FileNow(f).exists
                  /\ FileNow(f).lines = ExportedLines(f)
                  /\ Len(FileNow(f).lines) = Len(doc[f])
        /\ (/\ ExportDone /\ exportResult = Nil
            /\ \A f \in Fields :
                 NonEmpty(f) => FileBefore(f) = [exists |-> TRUE,
                                                 lines |-> ExportedLines(f)])
             => files = filesBefore

C21_Witness ==
    /\ exportRuns = 2 /\ ExportDone /\ exportResult = Nil
    /\ \E f \in Fields :
         /\ NonEmpty(f)
         /\ FileBefore(f).lines = ExportedLines(f)
         /\ Len(FileNow(f).lines) = MaxLen
    /\ \E g \in Fields :
         /\ ~NonEmpty(g)
         /\ FileNow(g).exists
         /\ Len(FileNow(g).lines) = MaxLen

====
